---- MODULE Spec2Model ----
(***************************************************************************)
(* Model of app.py: a Flask bookkeeping application (users, businesses,    *)
(* movements, products) with its REST handlers, the 30-day sales rollup,   *)
(* the per-category rollup, the monthly fiscal report and the forecast.    *)
(*                                                                         *)
(* State is the four SQLAlchemy tables, the Flask session cookie of the    *)
(* client whose request is being served, and the last HTTP response.       *)
(* Every route is one action; a request handler runs to completion, so an  *)
(* action is the whole handler including db.session.commit().              *)
(*                                                                         *)
(* Abstractions: amounts, costs and prices are integers (finite floats);   *)
(* dates are proleptic Gregorian ordinals as date.toordinal() gives them;  *)
(* the columns User.email, User.name and Business.name, which no handler   *)
(* branches on, are left out; the fitted regression values of the forecast *)
(* are left out (only its dates and its error condition are modelled).     *)
(***************************************************************************)
EXTENDS Integers, Sequences, FiniteSets, TLC

VARIABLES users, businesses, products, movements, session, resp

vars == <<users, businesses, products, movements, session, resp>>

tables == <<users, businesses, products, movements>>

\* ---------------------------------------------------------------- bounds

\* Rows the Business table may hold.
MaxBiz == 1
\* Rows the Movement table may hold in the whole-application specification.
MaxMovs == 2
\* Rows the Product table may hold.
MaxProds == 1
\* Rows the Movement table may hold in the sales-rollup specification.
MaxMovsSales == 3
\* Rows the Movement table may hold in the fiscal-report specification.
MaxMovsFiscal == 2
\* Rows the Movement table may hold in the forecast specification.
MaxMovsForecast == 5
\* Rows the Movement table may hold in the category-rollup specification.
MaxMovsCategory == 3

\* ------------------------------------------------------ program constants

\* timedelta(days=29): how far the sales window reaches back from today.
WindowBack == 29
\* len(rows) < 5: the fewest distinct sale dates the forecast accepts.
MinForecastRows == 5
\* range(1,8): the forecast covers the 7 following days.
ForecastDays == 7

\* Python's None (a NULL column, an absent JSON key).
None == "None"

\* The label plot_category gives a falsy category.
SinCategoria == "sin-categoria"

\* ------------------------------------------------------------- calendar
\* datetime(y, m, d).date() and date arithmetic, as ordinals (date(1,1,1) = 1).

IsLeap(y) == (y % 4 = 0 /\ y % 100 # 0) \/ y % 400 = 0

DaysInMonth(y, m) ==
    IF m \in {4, 6, 9, 11} THEN 30
    ELSE IF m = 2 THEN (IF IsLeap(y) THEN 29 ELSE 28)
    ELSE 31

DaysBeforeYear(y) ==
    LET p == y - 1 IN p * 365 + (p \div 4) - (p \div 100) + (p \div 400)

RECURSIVE DaysBeforeMonth(_, _)
DaysBeforeMonth(y, m) ==
    IF m <= 1 THEN 0 ELSE DaysBeforeMonth(y, m - 1) + DaysInMonth(y, m - 1)

\* datetime(y, m, d): raises ValueError unless the month and day exist.
ValidDate(y, m, d) == m \in 1..12 /\ d \in 1..DaysInMonth(y, m)

ToOrdinal(y, m, d) == DaysBeforeYear(y) + DaysBeforeMonth(y, m) + d

\* --------------------------------------------------------------- helpers

Range(s) == {s[i] : i \in 1..Len(s)}

RECURSIVE SumAmounts(_)
\* sum(r.amount for r in rows) and SQL's SUM(amount) over a non-empty group.
SumAmounts(rows) ==
    IF rows = <<>> THEN 0 ELSE Head(rows).amount + SumAmounts(Tail(rows))

\* The smallest / largest element of a non-empty set of integers.
SetMin(S) == CHOOSE x \in S : \A y \in S : x <= y

SetMax(S) == CHOOSE x \in S : \A y \in S : x >= y

RECURSIVE SortedSeq(_)
\* The elements of a set of integers in increasing order.
SortedSeq(S) ==
    IF S = {} THEN <<>> ELSE <<SetMin(S)>> \o SortedSeq(S \ {SetMin(S)})

\* ---------------------------------------------------------- session, auth

\* current_user(): the User row of session['user_id'], or None.
current_user == IF session = 0 THEN 0 ELSE session

Response(op, status, bid, body) ==
    [op |-> op, status |-> status, user |-> current_user, bid |-> bid,
     body |-> body]

\* The decorator: without a logged-in user the handler does not run.
login_required(op, bid, handler) ==
    IF current_user = 0
    THEN /\ resp' = Response(op, 302, bid, "login")
         /\ UNCHANGED <<tables, session>>
    ELSE handler

\* /auth/callback: find or create the User of the Google account, log it in.
auth_callback(GoogleIds) ==
    \E g \in GoogleIds :
        LET found == {i \in 1..Len(users) : users[i].google_id = g} IN
        /\ IF found = {}
           THEN users' = Append(users, [id |-> Len(users) + 1, google_id |-> g])
           ELSE users' = users
        /\ session' = (IF found = {} THEN Len(users) + 1
                       ELSE CHOOSE i \in found : TRUE)
        /\ resp' = [op |-> "auth_callback", status |-> 302, user |-> session',
                    bid |-> 0, body |-> "dashboard"]
        /\ UNCHANGED <<businesses, products, movements>>

\* /logout
logout ==
    /\ session' = 0
    /\ resp' = [op |-> "logout", status |-> 302, user |-> 0, bid |-> 0,
                body |-> "index"]
    /\ UNCHANGED tables

\* POST /create_business
create_business ==
    login_required("create_business", 0,
        /\ Len(businesses) < MaxBiz
        /\ businesses' = Append(businesses,
               [id |-> Len(businesses) + 1, owner_id |-> current_user])
        /\ resp' = Response("create_business", 302, Len(businesses) + 1,
                            "dashboard")
        /\ UNCHANGED <<users, products, movements, session>>)

\* GET /api/businesses
api_businesses ==
    login_required("api_businesses", 0,
        /\ resp' = Response("api_businesses", 200, 0,
               SelectSeq(businesses, LAMBDA b : b.owner_id = current_user))
        /\ UNCHANGED <<tables, session>>)

\* ---------------------------------------------------------- ledger store

\* The JSON object api_movements returns for one Movement row.
MovementJson(m) ==
    [id |-> m.id, date |-> m.date, time |-> m.time, tipo |-> m.tipo,
     amount |-> m.amount, category |-> m.category, note |-> m.note]

RECURSIVE MapJson(_)
MapJson(rows) ==
    IF rows = <<>> THEN <<>>
    ELSE <<MovementJson(Head(rows))>> \o MapJson(Tail(rows))

\* Mutant of MovementsOf: the query without its filter.
MovementsOfUnfiltered(bid) == movements

\* Movement.query.filter_by(business_id=bid).all()
MovementsOf(bid) == SelectSeq(movements, LAMBDA m : m.business_id = bid)

\* GET /api/<bid>/movements
api_movements_GET(Bids) ==
    \E bid \in Bids :
        login_required("api_movements_GET", bid,
            /\ resp' = Response("api_movements_GET", 200, bid,
                                MapJson(MovementsOf(bid)))
            /\ UNCHANGED <<tables, session>>)

\* Mutant of api_movements_POST: the row is written with db.session.merge
\* under the id of the first row, replacing it.
api_movements_POST_Merge(Requests, Cap) ==
    \E r \in Requests :
        /\ current_user # 0
        /\ r.amount.parses
        /\ Len(movements) < Cap
        /\ movements' =
               LET row == [id |-> 1, business_id |-> r.bid, date |-> r.date,
                           time |-> r.time, tipo |-> r.tipo,
                           amount |-> r.amount.value,
                           category |-> r.category, note |-> r.note]
               IN  IF movements = <<>> THEN <<row>>
                   ELSE [movements EXCEPT ![1] = row]
        /\ resp' = Response("api_movements_POST", 201, r.bid, 1)
        /\ UNCHANGED <<users, businesses, products, session>>

\* POST /api/<bid>/movements.  A request is the URL's bid and the JSON body;
\* amount is [parses, value]: float() raises ValueError when it does not
\* parse, the request then ends in a 500 and nothing is committed.  No field
\* is validated beyond that, and SQLite as configured here (no PRAGMA
\* foreign_keys) does not check business_id against the Business table.
api_movements_POST(Requests, Cap) ==
    \E r \in Requests :
        login_required("api_movements_POST", r.bid,
            IF ~r.amount.parses
            THEN /\ resp' = Response("api_movements_POST", 500, r.bid,
                                     "ValueError")
                 /\ UNCHANGED <<tables, session>>
            ELSE /\ Len(movements) < Cap
                 /\ movements' = Append(movements,
                        [id |-> Len(movements) + 1, business_id |-> r.bid,
                         date |-> r.date, time |-> r.time, tipo |-> r.tipo,
                         amount |-> r.amount.value, category |-> r.category,
                         note |-> r.note])
                 /\ resp' = Response("api_movements_POST", 201, r.bid,
                                     Len(movements) + 1)
                 /\ UNCHANGED <<users, businesses, products, session>>)

\* Product.query.filter_by(business_id=bid).all()
ProductsOf(bid) == SelectSeq(products, LAMBDA p : p.business_id = bid)

\* GET /api/<bid>/products
api_products_GET(Bids) ==
    \E bid \in Bids :
        login_required("api_products_GET", bid,
            /\ resp' = Response("api_products_GET", 200, bid,
                   [i \in 1..Len(ProductsOf(bid)) |->
                       [id |-> ProductsOf(bid)[i].id,
                        name |-> ProductsOf(bid)[i].name,
                        cost |-> ProductsOf(bid)[i].cost,
                        price |-> ProductsOf(bid)[i].price,
                        stock |-> ProductsOf(bid)[i].stock]])
            /\ UNCHANGED <<tables, session>>)

\* POST /api/<bid>/products
api_products_POST(Requests) ==
    \E r \in Requests :
        login_required("api_products_POST", r.bid,
            /\ Len(products) < MaxProds
            /\ products' = Append(products,
                   [id |-> Len(products) + 1, business_id |-> r.bid,
                    name |-> r.name, cost |-> r.cost, price |-> r.price,
                    stock |-> r.stock])
            /\ resp' = Response("api_products_POST", 201, r.bid,
                                Len(products) + 1)
            /\ UNCHANGED <<users, businesses, movements, session>>)

\* ----------------------------------------------------- aggregation engine

\* Mutant of DateRange: the end day left out, as range() would.
DateRangeHalfOpen(start, end) == [i \in 1..(end - start) |-> start + i - 1]

\* pd.date_range(start, end): every day from start to end, both included.
DateRange(start, end) == [i \in 1..(end - start + 1) |-> start + i - 1]

\* The per-day query of plot_sales: SUM(amount) over the business's movements
\* of that date (of either tipo), "or 0" when there is none.
DayTotal(bid, d) ==
    SumAmounts(SelectSeq(movements,
        LAMBDA m : m.business_id = bid /\ m.date = d))

\* GET /plot/sales?bid=..  Now is datetime.now().date().
plot_sales(Bids, Nows) ==
    \E bid \in Bids, end \in Nows :
        login_required("plot_sales", bid,
            LET start == end - WindowBack
                dates == DateRange(start, end)
                totals == [i \in 1..Len(dates) |-> DayTotal(bid, dates[i])]
            IN  /\ resp' = Response("plot_sales", 200, bid,
                       [now |-> end, dates |-> dates, totals |-> totals])
                /\ UNCHANGED <<tables, session>>)

\* Every category value a request of this model may carry, in the order
\* SQLite's GROUP BY returns the groups (NULL first, then text by bytes).
CategoryOrder == <<None, "", "rent", SinCategoria>>

\* The grouped query of plot_category: one (category, SUM(amount)) row per
\* distinct category value of the business, NULL being one group.
CategoryRows(bid) ==
    LET present == SelectSeq(CategoryOrder,
            LAMBDA c : \E i \in 1..Len(movements) :
                movements[i].business_id = bid /\ movements[i].category = c)
    IN  [i \in 1..Len(present) |->
            [category |-> present[i],
             total |-> SumAmounts(SelectSeq(movements,
                 LAMBDA m : m.business_id = bid /\ m.category = present[i]))]]

\* r[0] or 'sin-categoria': None and the empty string are falsy.
CategoryLabel(c) == IF c = None \/ c = "" THEN SinCategoria ELSE c

\* GET /plot/category?bid=..  The body is the pie's (label, value) series.
plot_category(Bids) ==
    \E bid \in Bids :
        login_required("plot_category", bid,
            LET rows == CategoryRows(bid) IN
            /\ resp' = Response("plot_category", 200, bid,
                   [i \in 1..Len(rows) |->
                       [label |-> CategoryLabel(rows[i].category),
                        value |-> rows[i].total]])
            /\ UNCHANGED <<tables, session>>)

\* The first and last day of fiscal_report's range.
FiscalStart(year, month) == ToOrdinal(year, month, 1)

\* Mutant of FiscalEnd: December's end computed without the year rollover.
FiscalEndSameYear(year, month) ==
    IF month = 12
    THEN ToOrdinal(year, 1, 1) - 1
    ELSE ToOrdinal(year, month + 1, 1) - 1

FiscalEnd(year, month) ==
    IF month = 12
    THEN ToOrdinal(year + 1, 1, 1) - 1
    ELSE ToOrdinal(year, month + 1, 1) - 1

\* GET /fiscal/<bid>/<year>/<month>.  datetime(year, month, 1) raises
\* ValueError for a month outside 1..12 (the route takes any integer).
fiscal_report(Bids, Years, Months) ==
    \E bid \in Bids, year \in Years, month \in Months :
        login_required("fiscal_report", bid,
            IF ~ValidDate(year, month, 1)
            THEN /\ resp' = Response("fiscal_report", 500, bid,
                                     [year |-> year, month |-> month])
                 /\ UNCHANGED <<tables, session>>
            ELSE LET start == FiscalStart(year, month)
                     end == FiscalEnd(year, month)
                     rows == SelectSeq(movements,
                         LAMBDA m : /\ m.business_id = bid
                                    /\ m.date >= start
                                    /\ m.date <= end)
                     total_sales == SumAmounts(
                         SelectSeq(rows, LAMBDA r : r.tipo = "venta"))
                     total_expenses == SumAmounts(
                         SelectSeq(rows, LAMBDA r : r.tipo = "gasto"))
                 IN  /\ resp' = Response("fiscal_report", 200, bid,
                            [year |-> year, month |-> month,
                             sales |-> total_sales,
                             expenses |-> total_expenses,
                             profit |-> total_sales - total_expenses])
                     /\ UNCHANGED <<tables, session>>)

\* ------------------------------------------------------- forecast engine

\* Mutant of SalesRows: the grouped query without the tipo filter.
SalesRowsAnyTipo(bid) ==
    LET ds == SortedSeq({movements[i].date : i \in
                {j \in 1..Len(movements) : movements[j].business_id = bid}})
    IN  [i \in 1..Len(ds) |->
            [date |-> ds[i],
             total |-> SumAmounts(SelectSeq(movements,
                 LAMBDA m : m.business_id = bid /\ m.date = ds[i]))]]

\* The grouped query of predict_sales: one (date, SUM(amount)) row per date
\* on which the business has a movement of tipo 'venta'.
SalesRows(bid) ==
    LET ds == SortedSeq({movements[i].date : i \in
                {j \in 1..Len(movements) :
                    /\ movements[j].business_id = bid
                    /\ movements[j].tipo = "venta"}})
    IN  [i \in 1..Len(ds) |->
            [date |-> ds[i],
             total |-> SumAmounts(SelectSeq(movements,
                 LAMBDA m : /\ m.business_id = bid
                            /\ m.tipo = "venta"
                            /\ m.date = ds[i]))]]

\* GET /predict/<bid>.  The body is the dates of the 7 predictions.
predict_sales(Bids) ==
    \E bid \in Bids :
        login_required("predict_sales", bid,
            LET rows == SalesRows(bid) IN
            IF Len(rows) < MinForecastRows
            THEN /\ resp' = Response("predict_sales", 400, bid,
                                     "Not enough data for prediction")
                 /\ UNCHANGED <<tables, session>>
            ELSE LET last == SetMax({rows[i].date : i \in 1..Len(rows)}) IN
                 /\ resp' = Response("predict_sales", 200, bid,
                        [i \in 1..ForecastDays |-> [date |-> last + i]])
                 /\ UNCHANGED <<tables, session>>)

\* ------------------------------------------------------ tickets, exports

\* GET /ticket/<mid>: 404 without such a movement; m.business is None when
\* business_id names no Business row, and m.business.name then raises.
ticket(Mids) ==
    \E mid \in Mids :
        login_required("ticket", 0,
            LET found == SelectSeq(movements, LAMBDA m : m.id = mid) IN
            /\ IF found = <<>>
               THEN resp' = Response("ticket", 404, 0, "Not Found")
               ELSE IF \A i \in 1..Len(businesses) :
                           businesses[i].id # found[1].business_id
               THEN resp' = Response("ticket", 500, found[1].business_id,
                                     "AttributeError")
               ELSE resp' = Response("ticket", 200, found[1].business_id,
                                     MovementJson(found[1]))
            /\ UNCHANGED <<tables, session>>)

\* GET /export/<bid>/csv: the module never imports csv, so csv.writer raises
\* NameError after the query has run.
export_csv(Bids) ==
    \E bid \in Bids :
        login_required("export_csv", bid,
            /\ resp' = Response("export_csv", 500, bid, "NameError")
            /\ UNCHANGED <<tables, session>>)

\* GET /export/<bid>/xlsx: the sheet holds one row per movement of bid.
export_xlsx(Bids) ==
    \E bid \in Bids :
        login_required("export_xlsx", bid,
            /\ resp' = Response("export_xlsx", 200, bid,
                   [i \in 1..Len(MovementsOf(bid)) |->
                       [date |-> MovementsOf(bid)[i].date,
                        time |-> MovementsOf(bid)[i].time,
                        tipo |-> MovementsOf(bid)[i].tipo,
                        amount |-> MovementsOf(bid)[i].amount,
                        category |-> MovementsOf(bid)[i].category,
                        note |-> MovementsOf(bid)[i].note]])
            /\ UNCHANGED <<tables, session>>)

\* GET /dashboard: shows the user's first business, if any.
dashboard ==
    login_required("dashboard", 0,
        LET own == SelectSeq(businesses, LAMBDA b : b.owner_id = current_user)
        IN  /\ resp' = Response("dashboard", 200,
                   IF own = <<>> THEN 0 ELSE own[1].id, "html")
            /\ UNCHANGED <<tables, session>>)

\* ------------------------------------------------------------- inputs

\* The Google accounts ('sub' of the id token) that log in.
GoogleIds == {"sub-a", "sub-b"}

\* The business ids requests name; while the Business table holds one row,
\* 2 names no Business.
Bids == {1, 2}

\* The time 12:00:00, in seconds of the day.
Noon == 12 * 3600

Parsed(v) == [parses |-> TRUE, value |-> v]

Unparseable == [parses |-> FALSE, value |-> 0]

\* A POST /api/<bid>/movements request.
MovementRequest(bid, date, tipo, amount, category) ==
    [bid |-> bid, date |-> date, time |-> Noon, tipo |-> tipo,
     amount |-> amount, category |-> category, note |-> None]

\* Whole application: a sale for either business id, a movement with an
\* unknown tipo and a negative amount, and an amount float() rejects.
Day0 == ToOrdinal(2024, 1, 15)

Requests ==
    {MovementRequest(1, Day0, "venta", Parsed(2), None),
     MovementRequest(2, Day0, "venta", Parsed(3), "rent"),
     MovementRequest(1, Day0, "otro", Parsed(-1), None),
     MovementRequest(1, Day0, "venta", Unparseable, None)}

ProductRequests ==
    {[bid |-> 2, name |-> "p", cost |-> 1, price |-> 2, stock |-> 0]}

\* Sales rollup: today is 2024-03-10, so the window is 2024-02-10 (over the
\* leap day) to 2024-03-10; movements fall on its first day, its last day and
\* the day before it.
SalesNow == ToOrdinal(2024, 3, 10)

SalesRequests ==
    {MovementRequest(b, d, k[1], Parsed(k[2]), None) :
        b \in Bids,
        d \in {SalesNow - WindowBack - 1, SalesNow - WindowBack, SalesNow},
        k \in {<<"venta", 2>>, <<"gasto", 5>>}}

\* Fiscal report: business 1 has movements around the turn of the year and
\* on the leap day, business 2 on 31 December.
FiscalDates ==
    {ToOrdinal(2023, 11, 30), ToOrdinal(2023, 12, 1), ToOrdinal(2023, 12, 31),
     ToOrdinal(2024, 1, 1), ToOrdinal(2024, 2, 29)}

FiscalRequests ==
    {MovementRequest(1, d, "venta", Parsed(2), None) : d \in FiscalDates}
    \cup
    {MovementRequest(1, d, "gasto", Parsed(5), None) :
        d \in {ToOrdinal(2023, 12, 31), ToOrdinal(2024, 2, 29)}}
    \cup
    {MovementRequest(2, ToOrdinal(2023, 12, 31), "venta", Parsed(2), None)}

FiscalYears == {2023, 2024}

\* The route's <int:month> takes any non-negative integer; 3 is a month
\* without movements.
FiscalMonths == {0, 1, 2, 3, 11, 12, 13}

\* Forecast: sales of business 1 on five dates with gaps between them, an
\* expense of business 1 and a sale of business 2 on later dates.
ForecastBase == ToOrdinal(2024, 2, 20)

ForecastRequests ==
    {MovementRequest(1, ForecastBase + o, "venta", Parsed(10), None) :
        o \in {0, 1, 3, 8, 9}}
    \cup {MovementRequest(1, ForecastBase + 11, "gasto", Parsed(5), None),
          MovementRequest(2, ForecastBase + 12, "venta", Parsed(10), None)}

\* Category rollup: every category value, with the amounts 50, 30 and 20.
CategoryRequests ==
    {MovementRequest(b, Day0, k[1], Parsed(k[2]), c) :
        b \in Bids,
        c \in Range(CategoryOrder),
        k \in {<<"gasto", 50>>, <<"gasto", 30>>, <<"venta", 20>>}}

\* ------------------------------------------------------- specifications

Init ==
    /\ users = <<>>
    /\ businesses = <<>>
    /\ products = <<>>
    /\ movements = <<>>
    /\ session = 0
    /\ resp = [op |-> "none", status |-> 0, user |-> 0, bid |-> 0,
               body |-> None]

\* The whole application.
Next ==
    \/ auth_callback(GoogleIds)
    \/ logout
    \/ create_business
    \/ api_businesses
    \/ dashboard
    \/ api_movements_GET(Bids)
    \/ api_movements_POST(Requests, MaxMovs)
    \/ api_products_GET(Bids)
    \/ api_products_POST(ProductRequests)
    \/ plot_sales(Bids, {Day0})
    \/ plot_category(Bids)
    \/ predict_sales(Bids)
    \/ ticket(1..MaxMovs)
    \/ export_csv(Bids)
    \/ export_xlsx(Bids)
    \/ fiscal_report(Bids, {2024}, {1})

Spec == Init /\ [][Next]_vars

\* Login, recording movements and the 30-day sales rollup.
NextSales ==
    \/ auth_callback({"sub-a"})
    \/ api_movements_POST(SalesRequests, MaxMovsSales)
    \/ plot_sales(Bids, {SalesNow})

SpecSales == Init /\ [][NextSales]_vars

\* Login, recording movements and the monthly fiscal report.
NextFiscal ==
    \/ auth_callback({"sub-a"})
    \/ api_movements_POST(FiscalRequests, MaxMovsFiscal)
    \/ fiscal_report(Bids, FiscalYears, FiscalMonths)

SpecFiscal == Init /\ [][NextFiscal]_vars

\* Login, recording movements and the forecast.
NextForecast ==
    \/ auth_callback({"sub-a"})
    \/ api_movements_POST(ForecastRequests, MaxMovsForecast)
    \/ predict_sales(Bids)

SpecForecast == Init /\ [][NextForecast]_vars

\* Login, recording movements and the category rollup.
NextCategory ==
    \/ auth_callback({"sub-a"})
    \/ api_movements_POST(CategoryRequests, MaxMovsCategory)
    \/ plot_category(Bids)

SpecCategory == Init /\ [][NextCategory]_vars

\* --------------------------------------------------------------- claims

\* The responses of a handler that ran (not the redirect to /login).
Served(op) == resp.op = op /\ resp.status \in {200, 201}

\* C1: listMovements(b) returns only movements of business b, and every
\* movement recorded for b: each returned object is the JSON of a stored row
\* whose business_id is b, and each stored row of b is returned.
C1_ListIsolation ==
    Served("api_movements_GET") =>
        /\ \A i \in 1..Len(resp.body) :
               \E j \in 1..Len(movements) :
                   /\ movements[j].id = resp.body[i].id
                   /\ movements[j].business_id = resp.bid
                   /\ resp.body[i] = MovementJson(movements[j])
        /\ \A j \in 1..Len(movements) :
               movements[j].business_id = resp.bid =>
                   \E i \in 1..Len(resp.body) :
                       resp.body[i] = MovementJson(movements[j])
        /\ Len(resp.body) =
               Cardinality({j \in 1..Len(movements) :
                               movements[j].business_id = resp.bid})

\* A list was served for one business while both businesses have movements.
C1_Witness ==
    /\ Served("api_movements_GET")
    /\ Len(resp.body) >= 1
    /\ \E j \in 1..Len(movements) : movements[j].business_id # resp.bid

\* The routes that read or write the ledger of the business id they name.
LedgerOps ==
    {"api_movements_GET", "api_movements_POST", "api_products_GET",
     "api_products_POST", "plot_sales", "plot_category", "predict_sales",
     "fiscal_report", "export_xlsx", "ticket"}

\* C2: a ledger operation on business b is only carried out when the
\* authenticated user owns b: whenever such a handler has served an existing
\* business, the user of the request is the owner of that business.
C2_OwnerOnly ==
    (resp.op \in LedgerOps /\ resp.status \in {200, 201}) =>
        \A i \in 1..Len(businesses) :
            businesses[i].id = resp.bid =>
                businesses[i].owner_id = resp.user

\* C3: in the daily sales totals, a day on which the business has no movement
\* of kind sale has total 0, whatever expenses it has on that day.
C3_NoSaleDayIsZero ==
    Served("plot_sales") =>
        \A i \in 1..Len(resp.body.dates) :
            (\A j \in 1..Len(movements) :
                ~(/\ movements[j].business_id = resp.bid
                  /\ movements[j].date = resp.body.dates[i]
                  /\ movements[j].tipo = "venta"))
            => resp.body.totals[i] = 0

\* C4: the daily sales totals are dense: 30 entries, one per calendar day of
\* the window that ends today and starts 29 days earlier, in strictly
\* increasing order without gaps, whichever days have movements.
C4_DenseWindow ==
    Served("plot_sales") =>
        /\ Len(resp.body.dates) = 30
        /\ Len(resp.body.totals) = 30
        /\ resp.body.dates[1] = resp.body.now - 29
        /\ resp.body.dates[30] = resp.body.now
        /\ \A i \in 1..29 : resp.body.dates[i + 1] = resp.body.dates[i] + 1

\* A rollup was served for a business with movements on some days of the
\* window and on a day outside it.
C4_Witness ==
    /\ Served("plot_sales")
    /\ \E i \in 1..30 : resp.body.totals[i] # 0
    /\ \E i \in 1..30 : resp.body.totals[i] = 0
    /\ \E j \in 1..Len(movements) :
           /\ movements[j].business_id = resp.bid
           /\ movements[j].date < resp.body.dates[1]

\* C5: every stored movement has a kind in {sale, expense} and an amount
\* that is not negative (a request with another kind or a negative amount
\* is rejected and stores nothing).
C5_ValidMovements ==
    \A j \in 1..Len(movements) :
        /\ movements[j].tipo \in {"venta", "gasto"}
        /\ movements[j].amount >= 0

\* C6: every stored Movement and Product references an existing Business (a
\* request naming a business id that does not resolve stores nothing).
C6_OwningBusinessExists ==
    /\ \A j \in 1..Len(movements) :
           \E i \in 1..Len(businesses) :
               businesses[i].id = movements[j].business_id
    /\ \A j \in 1..Len(products) :
           \E i \in 1..Len(businesses) :
               businesses[i].id = products[j].business_id

\* The date d is a day of the calendar month (year, month).
InMonth(d, year, month) ==
    \E day \in 1..DaysInMonth(year, month) : ToOrdinal(year, month, day) = d

\* The sum of the amounts of business bid's movements of kind tipo dated in
\* the calendar month.
MonthTotal(bid, tipo, year, month) ==
    SumAmounts(SelectSeq(movements,
        LAMBDA m : /\ m.business_id = bid
                   /\ m.tipo = tipo
                   /\ InMonth(m.date, year, month)))

\* C7: for every month in 1..12 the fiscal summary is served, with sales =
\* the sum of the business's sale movements dated in that calendar month,
\* expenses = the same over its expense movements, profit = sales - expenses.
C7_FiscalSummary ==
    (resp.op = "fiscal_report" /\ resp.status # 302) =>
        /\ resp.body.month \in 1..12 => resp.status = 200
        /\ resp.status = 200 =>
            /\ resp.body.sales =
                   MonthTotal(resp.bid, "venta", resp.body.year, resp.body.month)
            /\ resp.body.expenses =
                   MonthTotal(resp.bid, "gasto", resp.body.year, resp.body.month)
            /\ resp.body.profit = resp.body.sales - resp.body.expenses

\* A December summary with a non-zero profit was served for a business that
\* also has a movement on 1 January of the next year.
C7_Witness ==
    /\ Served("fiscal_report")
    /\ resp.body.month = 12
    /\ resp.body.profit # 0
    /\ \E j \in 1..Len(movements) :
           /\ movements[j].business_id = resp.bid
           /\ movements[j].date = ToOrdinal(resp.body.year + 1, 1, 1)

\* The distinct dates on which business bid has a sale movement.
SaleDates(bid) ==
    {movements[j].date : j \in
        {k \in 1..Len(movements) :
            movements[k].business_id = bid /\ movements[k].tipo = "venta"}}

LabelOf(m) ==
    IF m.category = None \/ m.category = "" THEN SinCategoria ELSE m.category

\* C9: the category totals hold one entry per distinct label among the
\* business's movements, valued with the sum of the amounts that carry the
\* label, the movements without category under the sentinel label; no label
\* appears twice.
C9_CategoryTotals ==
    Served("plot_category") =>
        /\ \A i, k \in 1..Len(resp.body) :
               resp.body[i].label = resp.body[k].label => i = k
        /\ {resp.body[i].label : i \in 1..Len(resp.body)} =
               {LabelOf(movements[j]) : j \in
                   {k \in 1..Len(movements) :
                       movements[k].business_id = resp.bid}}
        /\ \A i \in 1..Len(resp.body) :
               resp.body[i].value =
                   SumAmounts(SelectSeq(movements,
                       LAMBDA m : /\ m.business_id = resp.bid
                                  /\ LabelOf(m) = resp.body[i].label))

\* Every route but POST /api/<bid>/movements.
OtherOps ==
    {"api_businesses", "dashboard", "api_movements_GET", "api_products_GET",
     "api_products_POST", "plot_sales", "plot_category", "predict_sales",
     "fiscal_report", "export_csv", "export_xlsx", "ticket", "logout",
     "auth_callback", "create_business"}

====
